---- MODULE Spec2Model ----
(***************************************************************************)
(* The API resilience layer of pygithub-mcp-server:                        *)
(*   - the GitHubClient singleton (common/github.py) and the fixture that  *)
(*     resets it between test cases (tests/conftest.py);                   *)
(*   - the two exception mappers (errors/handlers.py and                   *)
(*     GitHubClient._handle_github_exception);                             *)
(*   - the tool functions' response envelope (tools/issues/tools.py);      *)
(*   - the failure paths of the facade operations (operations/);           *)
(*   - the rate-limit waits and backoff (client/rate_limit.py) and a retry *)
(*     loop around them;                                                   *)
(*   - the page windows of the list operations (operations/issues.py).     *)
(*   - process_error_response (common/utils.py), update_issue              *)
(*     (operations/issues.py), the archived push_files                     *)
(*     (archive/github/operations/files.py) and the retry_on_rate_limit    *)
(*     wrapper of the integration tests (tests/integration/conftest.py).   *)
(* Python threads interleave between bytecodes, so every read or write of  *)
(* a class attribute or of an instance attribute is one step of a thread.  *)
(***************************************************************************)
EXTENDS Integers, Sequences, FiniteSets, TLC

\* ------------------------------------------------------------------ bounds
\* Number of GitHubClient objects ever constructed in one behaviour.
MaxHandles == 3

\* ------------------------------------------------------------- lifecycle
Threads == {"t1", "t2"}
SeqThreads == {"t1"}

\* cls._instance = None; the objects are numbered from 1.
NoHandle == 0

\* Values of os.environ["GITHUB_PERSONAL_ACCESS_TOKEN"]: not set, the empty
\* string (falsy like None), or a token.
EnvValues == {"unset", "", "tokA"}
Truthy(tok) == tok \notin {"unset", ""}

Ops == {"get_instance", "ctor", "github"}
\* The same with get_repo(), which goes through the github property.
ClientOps == Ops \cup {"get_repo"}
\* The calls made on a handle the caller holds.
OnHandle == {"github", "get_repo"}

VARIABLES
  instance,        \* GitHubClient._instance: a handle id or NoHandle
  created_via,     \* GitHubClient._created_via_get_instance
  objs,            \* the GitHubClient objects constructed so far, by id 1..Len
  env,             \* the GITHUB_PERSONAL_ACCESS_TOKEN environment variable
  pc,              \* per thread: the line it is about to execute
  op,              \* per thread: the call it is making
  self,            \* per thread: the object bound to self / cls._instance read
  tok,             \* per thread: the local variable token of _init_client
  result,          \* per thread: how its last call ended
  held,            \* per thread: the handle its last get_instance() returned
  sawNone,         \* per thread: get_instance saw cls._instance is None
  first,           \* per thread: its get_instance is the first since a reset
  mark,            \* number of objects that existed at the last reset
  fresh,           \* no get_instance has started since the last reset
  returned,        \* the handles get_instance has returned since the last reset
  exc,             \* the GithubException handed to the exception mappers
  mapped,          \* what the two mappers made of it
  tool,            \* the tool function that is called
  outcome,         \* how the operation the tool calls ends
  envelope,        \* what the tool call gives its caller
  facade,          \* the facade operation called and its remote call that fails
  raised,          \* what the facade operation gives its caller
  issued,          \* how often the failing remote call has been issued
  rlcall,          \* the rate-limit function called and its arguments
  rlresult,        \* how that call ended
  clock,           \* the time, in tenths of a second since the call began
  sleeps,          \* the durations the call has slept, in order
  retry_attempt,   \* the attempt counter of a retry loop
  listreq,         \* the list operation called, the remote items, page, per_page
  listresp,        \* what the list operation gives its caller
  fetched,         \* the blocks asked of the PaginatedList with get_page
  response,        \* the error response handed to process_error_response
  perror,          \* what process_error_response raises
  updreq,          \* the optional arguments of the update_issue call
  updpc,           \* the line update_issue is about to execute
  kwargs,          \* the keys of its kwargs dict
  remote_issue,    \* the issue as the remote holds it
  snapshot,        \* the Issue object that get_issue returned
  calls,           \* the remote calls update_issue has made, in order
  updresult,       \* what update_issue gives its caller
  pushreq,         \* the files argument of the push_files call
  pushpc,          \* the step push_files is about to make
  blobs,           \* its list blobs: the tree entries of the blobs created
  objects,         \* the git objects the remote repository holds beyond the base commit
  branch_ref,      \* the commit the branch reference points at
  pushlog,         \* the requests push_files has sent, in order
  pushresult,      \* what push_files gives its caller
  script,          \* how the wrapped function ends at its first, second, ... call
  wrappc,          \* the line the retry_on_rate_limit wrapper is about to execute
  retry_count,     \* its local retry_count
  last_exception,  \* its local last_exception
  ncalls,          \* how often it has called the wrapped function
  waits,           \* the durations it has slept, in seconds, in order
  wrapresult       \* what the wrapper gives its caller

lifeVars == <<instance, created_via, objs, env, pc, op, self, tok, result,
              held, sawNone, first, mark, fresh, returned>>
toolVars == <<tool, outcome, envelope>>
facadeVars == <<facade, raised, issued>>
\* The variables of the layers above the client and its mappers.
rateVars == <<rlcall, rlresult, clock, sleeps, retry_attempt>>
pageVars == <<listreq, listresp, fetched>>
utilVars == <<response, perror>>
updVars == <<updreq, updpc, kwargs, remote_issue, snapshot, calls, updresult>>
pushVars == <<pushreq, pushpc, blobs, objects, branch_ref, pushlog, pushresult>>
wrapVars == <<script, wrappc, retry_count, last_exception, ncalls, waits, wrapresult>>
ext == <<toolVars, facadeVars, rateVars, pageVars, utilVars, updVars, pushVars, wrapVars>>
\* What a step of one layer leaves alone.
notTool == <<lifeVars, exc, mapped, facadeVars, rateVars, pageVars, utilVars, updVars, pushVars, wrapVars>>
notFacade == <<lifeVars, mapped, toolVars, rateVars, pageVars, utilVars, updVars, pushVars, wrapVars>>
notRate == <<lifeVars, exc, mapped, toolVars, facadeVars, pageVars, utilVars, updVars, pushVars, wrapVars>>
notPage == <<lifeVars, exc, mapped, toolVars, facadeVars, rateVars, utilVars, updVars, pushVars, wrapVars>>
notUtil == <<lifeVars, exc, mapped, toolVars, facadeVars, rateVars, pageVars, updVars, pushVars, wrapVars>>
notUpd == <<lifeVars, exc, mapped, toolVars, facadeVars, rateVars, pageVars, utilVars, pushVars, wrapVars>>
notPush == <<lifeVars, exc, mapped, toolVars, facadeVars, rateVars, pageVars, utilVars, updVars, wrapVars>>
notWrap == <<lifeVars, exc, mapped, toolVars, facadeVars, rateVars, pageVars, utilVars, updVars, pushVars>>
vars == <<instance, created_via, objs, env, pc, op, self, tok, result,
          held, sawNone, first, mark, fresh, returned, exc, mapped, ext>>

\* self._github: None, or the Github session that a thread's _create_client
\* built from a token; each Github(auth=auth) is a new object.
NoSession == [token |-> "None", by |-> "none"]
Session(t) == [token |-> tok[t], by |-> t]

\* Instance attributes fall back to the class attributes _initialized = False
\* and _github = None until _init_client assigns them on the instance.
NewObj(t) == [initialized |-> FALSE, github |-> NoSession,
              by |-> op[t], thread |-> t, sawNone |-> sawNone[t]]

NoResult == [kind |-> "none", h |-> NoHandle]
Ok(h) == [kind |-> "ok", h |-> h]
Raise(k) == [kind |-> k, h |-> NoHandle]

IsReady(h) == h # NoHandle /\ objs[h].initialized /\ objs[h].github # NoSession

\* The state of the spec's ClientHandle, read off the class attributes.
ClientState ==
  IF instance = NoHandle THEN "Uninitialized"
  ELSE IF objs[instance].initialized THEN "Ready"
  ELSE "Initializing"

InFlight == {t \in Threads : pc[t] # "idle"}

NoExc == [status |-> "none"]
NoMapped == [by |-> "none"]
NoOutcome == [kind |-> "none"]
NoEnvelope == [status |-> "none"]

\* No tool is being called.
ToolIdle == tool = "none" /\ outcome = NoOutcome /\ envelope = NoEnvelope
NoFacade == [op |-> "none"]
NoRaised == [kind |-> "none"]

\* No facade operation is being called.
FacadeIdle == facade = NoFacade /\ raised = NoRaised /\ issued = 0
NoCall == [fn |-> "none"]
NoRlResult == [status |-> "none"]

\* No rate-limit function is being called.
RateIdle ==
  /\ rlcall = NoCall /\ rlresult = NoRlResult
  /\ clock = 0 /\ sleeps = <<>> /\ retry_attempt = 0
NoListReq == [op |-> "none"]
NoListResp == [status |-> "none"]

\* No list operation is being called.
PageIdle == listreq = NoListReq /\ listresp = NoListResp /\ fetched = {}
NoResponse == [status_code |-> 0]
NoPError == [kind |-> "none"]

\* No error response is being processed.
UtilIdle == response = NoResponse /\ perror = NoPError
NoUpdReq == [fn |-> "none"]
NoIssue == [number |-> 0]
NoUpdResult == [status |-> "none"]

\* No update_issue is being called.
UpdIdle ==
  /\ updreq = NoUpdReq /\ updpc = "none" /\ kwargs = {}
  /\ remote_issue = NoIssue /\ snapshot = NoIssue /\ calls = <<>>
  /\ updresult = NoUpdResult
NoPushReq == [fn |-> "none"]
NoPushResult == [status |-> "none"]

\* No push_files is being called.
PushIdle ==
  /\ pushreq = NoPushReq /\ pushpc = "none" /\ blobs = <<>> /\ objects = {}
  /\ branch_ref = "none" /\ pushlog = <<>> /\ pushresult = NoPushResult
NoFuncEnd == [kind |-> "none", status |-> 0, text |-> <<>>]
NoWrapResult == [status |-> "none", exception |-> NoFuncEnd]

\* No wrapped function is being called.
WrapIdle ==
  /\ script = <<>> /\ wrappc = "none" /\ retry_count = 0
  /\ last_exception = NoFuncEnd /\ ncalls = 0 /\ waits = <<>>
  /\ wrapresult = NoWrapResult
ExtIdle == ToolIdle /\ FacadeIdle /\ RateIdle /\ PageIdle /\ UtilIdle /\ UpdIdle /\ PushIdle /\ WrapIdle

LifeInit ==
  /\ instance = NoHandle
  /\ created_via = FALSE
  /\ objs = <<>>
  /\ env \in EnvValues
  /\ pc = [t \in Threads |-> "idle"]
  /\ op = [t \in Threads |-> "none"]
  /\ self = [t \in Threads |-> NoHandle]
  /\ tok = [t \in Threads |-> "unread"]
  /\ result = [t \in Threads |-> NoResult]
  /\ held = [t \in Threads |-> NoHandle]
  /\ sawNone = [t \in Threads |-> FALSE]
  /\ first = [t \in Threads |-> FALSE]
  /\ mark = 0
  /\ fresh = TRUE
  /\ returned = {}

Init ==
  /\ LifeInit
  /\ exc = NoExc
  /\ mapped = NoMapped
  /\ ExtIdle

\* A thread starts a call: GitHubClient.get_instance(), a direct GitHubClient(),
\* or the github property or get_repo() of the handle it holds.
BeginCall(t, ops) ==
  /\ pc[t] = "idle"
  /\ \E o \in ops :
       /\ o \in OnHandle => held[t] # NoHandle
       /\ o \notin OnHandle => Len(objs) + Cardinality(InFlight) < MaxHandles
       /\ op' = [op EXCEPT ![t] = o]
       /\ pc' = [pc EXCEPT ![t] = CASE o = "get_instance" -> "gi_check"
                                    [] o = "ctor" -> "init_check"
                                    [] o \in OnHandle -> "gh_check"]
       /\ self' = [self EXCEPT ![t] = IF o \in OnHandle THEN held[t] ELSE NoHandle]
  /\ tok' = [tok EXCEPT ![t] = "unread"]
  /\ result' = [result EXCEPT ![t] = NoResult]
  /\ sawNone' = [sawNone EXCEPT ![t] = FALSE]
  /\ first' = [first EXCEPT ![t] = FALSE]
  /\ UNCHANGED <<instance, created_via, objs, env, held, mark, fresh, returned, exc, mapped, ext>>

Begin(t) == BeginCall(t, Ops)
BeginClient(t) == BeginCall(t, ClientOps)

\* get_instance: a variant that constructs without looking at the cache.
GetInstanceCheckAlways(t) ==
  /\ pc[t] = "gi_check"
  /\ sawNone' = [sawNone EXCEPT ![t] = (instance = NoHandle)]
  /\ first' = [first EXCEPT ![t] = fresh]
  /\ fresh' = FALSE
  /\ pc' = [pc EXCEPT ![t] = "gi_flag"]
  /\ UNCHANGED <<instance, created_via, objs, env, op, self, tok, result,
                 held, mark, returned, exc, mapped, ext>>

\* get_instance, line 55: if cls._instance is None
GetInstanceCheck(t) ==
  /\ pc[t] = "gi_check"
  /\ sawNone' = [sawNone EXCEPT ![t] = (instance = NoHandle)]
  /\ first' = [first EXCEPT ![t] = fresh]
  /\ fresh' = FALSE
  /\ pc' = [pc EXCEPT ![t] = IF instance = NoHandle THEN "gi_flag" ELSE "gi_ret"]
  /\ UNCHANGED <<instance, created_via, objs, env, op, self, tok, result,
                 held, mark, returned, exc, mapped, ext>>

\* get_instance, line 56: cls._created_via_get_instance = True
GetInstanceFlag(t) ==
  /\ pc[t] = "gi_flag"
  /\ created_via' = TRUE
  /\ pc' = [pc EXCEPT ![t] = "init_check"]
  /\ UNCHANGED <<instance, objs, env, op, self, tok, result, held, sawNone,
                 first, mark, fresh, returned, exc, mapped, ext>>

\* __init__, lines 44-45: raise RuntimeError unless the flag is set
InitCheck(t) ==
  /\ pc[t] = "init_check"
  /\ IF created_via
       THEN /\ pc' = [pc EXCEPT ![t] = "init_reset"]
            /\ UNCHANGED result
       ELSE /\ pc' = [pc EXCEPT ![t] = "idle"]
            /\ result' = [result EXCEPT ![t] = Raise("RuntimeError")]
  /\ UNCHANGED <<instance, created_via, objs, env, op, self, tok, held,
                 sawNone, first, mark, fresh, returned, exc, mapped, ext>>

\* __init__, line 46: the flag is reset and the constructor returns the new
\* object: to get_instance (line 57), or to the direct caller.
InitReset(t) ==
  /\ pc[t] = "init_reset"
  /\ created_via' = FALSE
  /\ objs' = Append(objs, NewObj(t))
  /\ self' = [self EXCEPT ![t] = Len(objs) + 1]
  /\ IF op[t] = "ctor"
       THEN /\ pc' = [pc EXCEPT ![t] = "idle"]
            /\ result' = [result EXCEPT ![t] = Ok(Len(objs) + 1)]
       ELSE /\ pc' = [pc EXCEPT ![t] = "gi_assign"]
            /\ UNCHANGED result
  /\ UNCHANGED <<instance, env, op, tok, held, sawNone, first, mark, fresh,
                 returned, exc, mapped, ext>>

\* get_instance, line 57: cls._instance = <the new object>
GetInstanceAssign(t) ==
  /\ pc[t] = "gi_assign"
  /\ instance' = self[t]
  /\ pc' = [pc EXCEPT ![t] = "gi_init"]
  /\ UNCHANGED <<created_via, objs, env, op, self, tok, result, held, sawNone,
                 first, mark, fresh, returned, exc, mapped, ext>>

\* get_instance, line 58: cls._instance._init_client() reads the class
\* attribute again; _init_client, line 63: if self._initialized: return
GetInstanceInit(t) ==
  /\ pc[t] = "gi_init"
  /\ self' = [self EXCEPT ![t] = instance]
  /\ pc' = [pc EXCEPT ![t] = IF objs[instance].initialized THEN "gi_ret" ELSE "ic_token"]
  /\ UNCHANGED <<instance, created_via, objs, env, op, tok, result, held,
                 sawNone, first, mark, fresh, returned, exc, mapped, ext>>

\* _init_client: a variant that never looks at the token it read.
InitClientTokenUnchecked(t) ==
  /\ pc[t] = "ic_token"
  /\ tok' = [tok EXCEPT ![t] = env]
  /\ pc' = [pc EXCEPT ![t] = "ic_create"]
  /\ UNCHANGED <<instance, created_via, objs, env, op, self, result, held,
                 sawNone, first, mark, fresh, returned, exc, mapped, ext>>

\* _init_client, lines 67-72: token = os.getenv(...); if not token: raise
InitClientToken(t) ==
  /\ pc[t] = "ic_token"
  /\ tok' = [tok EXCEPT ![t] = env]
  /\ IF Truthy(env)
       THEN /\ pc' = [pc EXCEPT ![t] = "ic_create"]
            /\ UNCHANGED result
       ELSE /\ pc' = [pc EXCEPT ![t] = "idle"]
            /\ result' = [result EXCEPT ![t] = Raise("ConfigError")]
  /\ UNCHANGED <<instance, created_via, objs, env, op, self, held, sawNone,
                 first, mark, fresh, returned, exc, mapped, ext>>

\* _init_client, line 75, _create_client, lines 85-86: self._github = Github(auth)
InitClientCreate(t) ==
  /\ pc[t] = "ic_create"
  /\ objs' = [objs EXCEPT ![self[t]].github = Session(t)]
  /\ pc' = [pc EXCEPT ![t] = "ic_set"]
  /\ UNCHANGED <<instance, created_via, env, op, self, tok, result, held,
                 sawNone, first, mark, fresh, returned, exc, mapped, ext>>

\* _init_client, line 77: self._initialized = True, then back to the caller
InitClientSet(t) ==
  /\ pc[t] = "ic_set"
  /\ objs' = [objs EXCEPT ![self[t]].initialized = TRUE]
  /\ pc' = [pc EXCEPT ![t] = IF op[t] \in OnHandle THEN "gh_ret" ELSE "gi_ret"]
  /\ UNCHANGED <<instance, created_via, env, op, self, tok, result, held,
                 sawNone, first, mark, fresh, returned, exc, mapped, ext>>

\* get_instance, line 59: return cls._instance
GetInstanceReturn(t) ==
  /\ pc[t] = "gi_ret"
  /\ result' = [result EXCEPT ![t] = Ok(instance)]
  /\ held' = [held EXCEPT ![t] = instance]
  /\ returned' = returned \cup {instance}
  /\ pc' = [pc EXCEPT ![t] = "idle"]
  /\ UNCHANGED <<instance, created_via, objs, env, op, self, tok, sawNone,
                 first, mark, fresh, exc, mapped, ext>>

\* github property, lines 98-99: if not self._initialized: self._init_client()
\* (_init_client tests the flag again at line 63)
GithubCheck(t) ==
  /\ pc[t] = "gh_check"
  /\ pc' = [pc EXCEPT ![t] = IF objs[self[t]].initialized THEN "gh_ret" ELSE "ic_token"]
  /\ UNCHANGED <<instance, created_via, objs, env, op, self, tok, result,
                 held, sawNone, first, mark, fresh, returned, exc, mapped, ext>>

\* github property, lines 101-104: raise if self._github is None, else return
\* it: to the caller, or to get_repo (line 120), which lets the GitHubError pass.
GithubReturn(t) ==
  /\ pc[t] = "gh_ret"
  /\ IF objs[self[t]].github = NoSession
       THEN /\ result' = [result EXCEPT ![t] = Raise("NotInitialized")]
            /\ pc' = [pc EXCEPT ![t] = "idle"]
       ELSE IF op[t] = "get_repo"
         THEN /\ UNCHANGED result
              /\ pc' = [pc EXCEPT ![t] = "gr_call"]
         ELSE /\ result' = [result EXCEPT ![t] = Ok(self[t])]
              /\ pc' = [pc EXCEPT ![t] = "idle"]
  /\ UNCHANGED <<instance, created_via, objs, env, op, self, tok, held,
                 sawNone, first, mark, fresh, returned, exc, mapped, ext>>

\* get_repo, lines 120-125: the session's get_repo(full_name) returns the
\* repository, or raises a GithubException that _handle_github_exception maps
\* to the GitHubError that is raised.
GetRepoCall(t) ==
  /\ pc[t] = "gr_call"
  /\ \E r \in {Ok(self[t]), Raise("GitHubError")} :
       result' = [result EXCEPT ![t] = r]
  /\ pc' = [pc EXCEPT ![t] = "idle"]
  /\ UNCHANGED <<instance, created_via, objs, env, op, self, tok, held,
                 sawNone, first, mark, fresh, returned, exc, mapped, ext>>

\* The fixture without its first assignment.
ResetKeepsInstance ==
  /\ InFlight = {}
  /\ Len(objs) < MaxHandles
  /\ created_via' = FALSE
  /\ mark' = Len(objs)
  /\ fresh' = TRUE
  /\ held' = [t \in Threads |-> NoHandle]
  /\ result' = [t \in Threads |-> NoResult]
  /\ op' = [t \in Threads |-> "none"]
  /\ self' = [t \in Threads |-> NoHandle]
  /\ tok' = [t \in Threads |-> "unread"]
  /\ sawNone' = [t \in Threads |-> FALSE]
  /\ first' = [t \in Threads |-> FALSE]
  /\ returned' = {}
  /\ UNCHANGED <<instance, objs, env, pc, exc, mapped, ext>>

\* reset_github_client (tests/conftest.py): the four class attributes are put
\* back between test cases, when no call is running; the objects already made
\* keep their instance attributes, and the next test case starts with none of
\* the previous one's locals.
Reset ==
  /\ InFlight = {}
  /\ Len(objs) < MaxHandles
  /\ instance' = NoHandle
  /\ created_via' = FALSE
  /\ mark' = Len(objs)
  /\ fresh' = TRUE
  /\ held' = [t \in Threads |-> NoHandle]
  /\ result' = [t \in Threads |-> NoResult]
  /\ op' = [t \in Threads |-> "none"]
  /\ self' = [t \in Threads |-> NoHandle]
  /\ tok' = [t \in Threads |-> "unread"]
  /\ sawNone' = [t \in Threads |-> FALSE]
  /\ first' = [t \in Threads |-> FALSE]
  /\ returned' = {}
  /\ UNCHANGED <<objs, env, pc, exc, mapped, ext>>

\* The github_token fixture and test_missing_token set or delete the variable
\* between calls.
SetEnv ==
  /\ InFlight = {}
  /\ \E v \in EnvValues : v # env /\ env' = v
  /\ UNCHANGED <<instance, created_via, objs, pc, op, self, tok, result, held,
                 sawNone, first, mark, fresh, returned, exc, mapped, ext>>

\* The lines of a call that is running.
Body(t) ==
  \/ GetInstanceCheck(t)
  \/ GetInstanceFlag(t)
  \/ InitCheck(t)
  \/ InitReset(t)
  \/ GetInstanceAssign(t)
  \/ GetInstanceInit(t)
  \/ InitClientToken(t)
  \/ InitClientCreate(t)
  \/ InitClientSet(t)
  \/ GetInstanceReturn(t)
  \/ GithubCheck(t)
  \/ GithubReturn(t)

Step(t) == Begin(t) \/ Body(t)

Next == (\E t \in Threads : Step(t)) \/ Reset \/ SetEnv

\* Two threads, as in a server whose tools run concurrently.
Spec == Init /\ [][Next]_vars

\* One thread: the calls follow one another, as in the test suite.
NextSeq == (\E t \in SeqThreads : Step(t)) \/ Reset \/ SetEnv
SpecSeq == Init /\ [][NextSeq]_vars

\* Two threads that also call get_repo() on the handle they hold.
NextClient ==
  \/ \E t \in Threads : BeginClient(t) \/ Body(t) \/ GetRepoCall(t)
  \/ Reset
  \/ SetEnv
SpecClient == Init /\ [][NextClient]_vars

\* ------------------------------------------------------ exception mapping
\* Longest message text, in words.
MaxMsgLen == 2

\* A message text is a sequence of words; a keyword occurs in text.lower()
\* when one of the words, lower-cased, is the keyword.
Words == {"rate limit", "Rate Limit", "issue", "Repository", "comment",
          "label", "other"}
Resources == {"none", "Issue", "Label"}
Hints == {"none", "issue", "comment"}
Statuses == {401, 403, 404, 409, 422, 500}

\* str.lower()
Lower(w) ==
  CASE w = "Rate Limit" -> "rate limit"
    [] w = "Repository" -> "repository"
    [] w = "Issue" -> "issue"
    [] w = "Label" -> "label"
    [] OTHER -> w

\* str.title(); no resource type leaves the message "Not Found"
Title(w) ==
  CASE w = "issue" -> "Issue"
    [] w = "repository" -> "Repository"
    [] w = "comment" -> "Comment"
    [] w = "label" -> "Label"
    [] w = "commit" -> "Commit"
    [] w = "content_file" -> "Content_File"
    [] w = "git_ref" -> "Git_Ref"
    [] OTHER -> w

\* kw in text.lower()
Contains(text, kw) == \E i \in 1..Len(text) : Lower(text[i]) = kw

Messages == UNION {[1..n -> Words] : n \in 0..MaxMsgLen}

\* error.data: None, or the parsed JSON object of the response, with or
\* without a "message" and a "resource" key.
Bodies ==
  {b \in [type : {"none", "dict"}, hasMsg : BOOLEAN, msg : Messages,
          resource : Resources] :
     /\ b.type = "none" => (~b.hasMsg /\ b.resource = "none")
     /\ ~b.hasMsg => b.msg = <<>>}

\* The failures PyGithub raises: a GithubException with a status, a body and
\* headers (absent, without or with X-RateLimit-Reset, an epoch in seconds),
\* or its subclass RateLimitExceededException for a 403 whose message names
\* the rate limit, with or without a rate attribute; and the resource hint the
\* caller passes along.
Exceptions ==
  {e \in [rle : BOOLEAN, rate : {"none", "noreset", "reset"},
          status : Statuses, body : Bodies,
          headers : {"none", "empty", "reset"}, hint : Hints] :
     /\ ~e.rle => e.rate = "none"
     /\ e.rle => /\ e.status = 403
                 /\ e.body.hasMsg /\ Contains(e.body.msg, "rate limit")}

\* str(error): the status followed by the JSON dump of the body, so the text
\* of every value of the body.
StrError(e) ==
  (IF e.body.hasMsg THEN e.body.msg ELSE <<>>)
    \o (IF e.body.resource # "none" THEN <<e.body.resource>> ELSE <<>>)

\* headers.get("X-RateLimit-Reset"): a variant that loses the value.
HeaderResetDropped(e) == "None"

\* headers = getattr(error, "headers", {}) or {};
\* reset_time = headers.get("X-RateLimit-Reset"): the header's string or None
HeaderReset(e) == IF e.headers = "reset" THEN "str" ELSE "None"

\* rate = getattr(error, "rate", None); reset_time = rate.reset when there is
\* a rate: a datetime or None
RateReset(e) == IF e.rate = "reset" THEN "datetime" ELSE "None"

\* The resolution with the body's "resource" looked at before the hint.
ResourceTypeBodyFirst(e, error_msg) ==
  IF e.body.type = "dict" /\ e.body.resource # "none" THEN e.body.resource
  ELSE IF e.hint # "none" THEN e.hint
  ELSE IF Contains(error_msg, "issue") THEN "issue"
  ELSE IF Contains(error_msg, "repository") THEN "repository"
  ELSE IF Contains(error_msg, "comment") THEN "comment"
  ELSE IF Contains(error_msg, "label") THEN "label"
  ELSE "none"

\* The resource type named in a not-found message: the hint, else the body's
\* "resource", else the first keyword found in the message text.
ResourceType(e, error_msg) ==
  IF e.hint # "none" THEN e.hint
  ELSE IF e.body.type = "dict" /\ e.body.resource # "none" THEN e.body.resource
  ELSE IF Contains(error_msg, "issue") THEN "issue"
  ELSE IF Contains(error_msg, "repository") THEN "repository"
  ELSE IF Contains(error_msg, "comment") THEN "comment"
  ELSE IF Contains(error_msg, "label") THEN "label"
  ELSE "none"

\* A GitHubError of class kind; only GitHubRateLimitError has a reset_at.
DomainError(kind, reset_at, resource_type) ==
  [kind |-> kind, reset_at |-> reset_at, resource_type |-> resource_type]

\* The status dispatch with the 404 and 422 branches exchanged.
handle_github_exception_swapped(e) ==
  IF e.rle
    THEN DomainError("RateLimit", RateReset(e), "none")
    ELSE
      LET error_msg == IF e.body.type = "dict" /\ e.body.hasMsg
                         THEN e.body.msg ELSE StrError(e)
          resource_type == ResourceType(e, error_msg)
      IN CASE e.status = 401 -> DomainError("Authentication", "absent", "none")
           [] e.status = 403 ->
                IF Contains(error_msg, "rate limit")
                  THEN DomainError("RateLimit", HeaderReset(e), "none")
                  ELSE DomainError("Permission", "absent", "none")
           [] e.status = 422 -> DomainError("NotFound", "absent", Title(resource_type))
           [] e.status = 404 -> DomainError("Validation", "absent", "none")
           [] OTHER -> DomainError("Unknown", "absent", "none")

\* errors/handlers.py, handle_github_exception. For the failures above no
\* statement of its try block raises, so its except branch is not taken.
handle_github_exception(e) ==
  IF e.rle
    THEN DomainError("RateLimit", RateReset(e), "none")
    ELSE
      LET error_msg == IF e.body.type = "dict" /\ e.body.hasMsg
                         THEN e.body.msg ELSE StrError(e)
          resource_type == ResourceType(e, error_msg)
      IN CASE e.status = 401 -> DomainError("Authentication", "absent", "none")
           [] e.status = 403 ->
                IF Contains(error_msg, "rate limit")
                  THEN DomainError("RateLimit", HeaderReset(e), "none")
                  ELSE DomainError("Permission", "absent", "none")
           [] e.status = 404 -> DomainError("NotFound", "absent", Title(resource_type))
           [] e.status = 422 -> DomainError("Validation", "absent", "none")
           [] OTHER -> DomainError("Unknown", "absent", "none")

\* common/github.py, GitHubClient._handle_github_exception
client_handle_github_exception(e) ==
  LET error_msg == StrError(e)
      resource_type == ResourceType(e, error_msg)
  IN CASE e.status = 401 -> DomainError("Authentication", "absent", "none")
       [] e.status = 403 ->
            IF Contains(error_msg, "rate limit")
              THEN DomainError("RateLimit", HeaderReset(e), "none")
              ELSE DomainError("Permission", "absent", "none")
       [] e.status = 404 -> DomainError("NotFound", "absent", Title(resource_type))
       [] e.status = 422 -> DomainError("Validation", "absent", "none")
       [] OTHER -> DomainError("Unknown", "absent", "none")

\* wait_for_rate_limit_reset(reset_time, buffer_seconds) computes with
\* datetimes: it takes a datetime and raises on anything else.
WaitAccepts(reset_at) == reset_at = "datetime"

MapInit ==
  /\ LifeInit /\ env = "unset"
  /\ exc \in Exceptions
  /\ mapped = NoMapped
  /\ ExtIdle

\* A caller applies handle_github_exception(error, resource_hint).
MapHandlers ==
  /\ exc # NoExc /\ mapped = NoMapped
  /\ mapped' = [by |-> "handlers"] @@ handle_github_exception(exc)
  /\ UNCHANGED <<lifeVars, exc, ext>>

\* An operation's except clause:
\* raise GitHubClient.get_instance()._handle_github_exception(e, hint)
MapClient ==
  /\ exc # NoExc /\ mapped = NoMapped
  /\ mapped' = [by |-> "client"] @@ client_handle_github_exception(exc)
  /\ UNCHANGED <<lifeVars, exc, ext>>

NextMap == MapHandlers \/ MapClient
SpecMap == MapInit /\ [][NextMap]_vars

\* ------------------------------------------------- claims on the lifecycle
\* The objects constructed since the last reset.
Live == {h \in 1..Len(objs) : h > mark}
FactoryBuilt == {h \in Live : objs[h].by = "get_instance"}
\* Thread t has finished a get_instance() call and its outcome is on record.
Done(t) == pc[t] = "idle" /\ op[t] = "get_instance" /\ result[t].kind # "none"

\* C1: with the calls made one after another and no reset in between, every
\* get_instance() that returns yields the same handle, and at most one handle
\* has been constructed.
C1_OneHandle ==
  /\ Cardinality(returned) <= 1
  /\ Cardinality(Live) <= 1
  /\ \A t \in Threads : (Done(t) /\ result[t].kind = "ok") => result[t].h = instance
\* A second call has returned the cached handle.
C1_Witness ==
  /\ Done("t1") /\ result["t1"].kind = "ok" /\ ~sawNone["t1"]
  /\ returned = {instance}

\* C2: whenever get_instance() returns normally, the handle it returns is Ready.
C2_ReturnsReady ==
  \A t \in Threads : (Done(t) /\ result[t].kind = "ok") => IsReady(result[t].h)

\* C3: a direct GitHubClient() always ends in RuntimeError and produces no
\* object, whatever a get_instance() on another thread is doing.
C3_DirectCtorFails ==
  /\ \A t \in Threads :
       (pc[t] = "idle" /\ op[t] = "ctor" /\ result[t].kind # "none")
          => result[t].kind = "RuntimeError"
  /\ \A h \in 1..Len(objs) : objs[h].by # "ctor"

\* C4: two handles built by get_instance() since the last reset exist only as
\* the outcome of the race: they were built by two different threads, each of
\* which had seen cls._instance is None.
C4_RaceOnFirstAccess ==
  \A h1, h2 \in FactoryBuilt :
     h1 # h2 => /\ objs[h1].sawNone /\ objs[h2].sawNone
                /\ objs[h1].thread # objs[h2].thread
\* Both threads saw no cached handle, both constructed and initialized one,
\* and the two calls returned different handles.
C4_Witness ==
  /\ Done("t1") /\ Done("t2")
  /\ result["t1"].kind = "ok" /\ result["t2"].kind = "ok"
  /\ result["t1"].h # result["t2"].h
  /\ sawNone["t1"] /\ sawNone["t2"]
  /\ \A h \in {result["t1"].h, result["t2"].h} : h \in FactoryBuilt /\ IsReady(h)

\* C5: the client state moves only Uninitialized -> Initializing -> Ready, a
\* step of get_instance() makes each of these moves, and any other change of
\* state is a reset back to Uninitialized.
C5_FactoryDrivesLifecycle ==
  [][ClientState' # ClientState =>
       \/ /\ \/ ClientState = "Uninitialized" /\ ClientState' = "Initializing"
             \/ ClientState = "Initializing" /\ ClientState' = "Ready"
          /\ \E t \in Threads : op[t] = "get_instance" /\ pc'[t] # pc[t]
       \/ /\ ClientState' = "Uninitialized"
          /\ InFlight = {} /\ fresh']_vars

\* C6: a get_instance() that finds no handle reads the credential, and it ends
\* in the configuration error exactly when the credential is absent; no call
\* ends in that error without having read the credential.
C6_MissingCredential ==
  /\ \A t \in Threads :
       (Done(t) /\ sawNone[t]) =>
          /\ tok[t] # "unread"
          /\ ~Truthy(tok[t]) => result[t].kind = "ConfigError"
          /\ Truthy(tok[t]) => result[t].kind = "ok"
  /\ \A t \in Threads :
       result[t].kind = "ConfigError" => (tok[t] # "unread" /\ ~Truthy(tok[t]))
\* A first get_instance() with the variable not set has raised.
C6_Witness ==
  /\ Done("t1") /\ sawNone["t1"] /\ tok["t1"] = "unset"
  /\ result["t1"].kind = "ConfigError"

\* C7: after a reset the client is Uninitialized whatever it was before, and
\* the next get_instance() reads the credential again and, when it returns,
\* returns a Ready handle built after the reset from the credential it read.
C7_ResetClears ==
  /\ fresh => /\ ClientState = "Uninitialized"
              /\ ~created_via
              /\ Live = {}
              /\ \A t \in Threads : held[t] = NoHandle
  /\ \A t \in Threads :
       (Done(t) /\ first[t]) =>
          /\ tok[t] # "unread"
          /\ result[t].kind \in {"ok", "ConfigError"}
          /\ result[t].kind = "ok" =>
                /\ result[t].h > mark
                /\ IsReady(result[t].h)
                /\ objs[result[t].h].github.token = tok[t]
\* A reset was made with a Ready handle cached, and the get_instance() after it
\* returned a new handle.
C7_Witness ==
  /\ mark > 0 /\ objs[mark].initialized
  /\ Done("t1") /\ first["t1"] /\ result["t1"].kind = "ok"
  /\ result["t1"].h > mark

\* ------------------------------------------- claims on exception mapping
\* The message of a failure: the "message" of its body, else its text.
Message(e) == IF e.body.hasMsg THEN e.body.msg ELSE StrError(e)

\* The mapping table of the specification.
TableKind(e) ==
  CASE e.status = 401 -> "Authentication"
    [] e.status = 403 /\ Contains(Message(e), "rate limit") -> "RateLimit"
    [] e.status = 403 /\ ~Contains(Message(e), "rate limit") -> "Permission"
    [] e.status = 404 -> "NotFound"
    [] e.status = 422 -> "Validation"
    [] OTHER -> "Unknown"

HasMapped == mapped.by # "none"
HasReset == mapped.reset_at \notin {"absent", "None"}

SuppliedReset(e, by) ==
  IF by = "handlers" /\ e.rle THEN e.rate = "reset" ELSE e.headers = "reset"

C10_ResetUsable ==
  (/\ HasMapped /\ exc.status = 403 /\ exc.headers = "reset"
   /\ Contains(Message(exc), "rate limit"))
     => /\ mapped.kind = "RateLimit"
        /\ mapped.reset_at # "None"
        /\ WaitAccepts(mapped.reset_at)

\* The keywords in the order they are looked for.
KeywordOrder == <<"issue", "repository", "comment", "label">>
\* The first keyword of KeywordOrder that occurs in text, "none" without one.
FirstKeyword(text) ==
  LET hits == {i \in 1..Len(KeywordOrder) : Contains(text, KeywordOrder[i])}
  IN IF hits = {} THEN "none"
     ELSE KeywordOrder[CHOOSE i \in hits : \A j \in hits : i <= j]
\* The text a mapper searches: handle_github_exception the message of the
\* failure, GitHubClient._handle_github_exception the text of the exception.
SearchedText(e, by) == IF by = "handlers" THEN Message(e) ELSE StrError(e)

JsonTools == {"create_issue", "list_issues", "get_issue", "update_issue",
              "add_issue_comment", "list_issue_comments",
              "update_issue_comment", "add_issue_labels"}
FixedTools == {"delete_issue_comment", "remove_issue_label"}
Tools == JsonTools \cup FixedTools

\* The GitHubErrors an operation raises: what the mappers make of a failure.
MappedErrors ==
  {client_handle_github_exception(e) : e \in Exceptions}
    \cup {handle_github_exception(e) : e \in Exceptions}

\* str(e) of an exception that is not a GitHubError: empty or not.
ExcTexts == {"", "boom"}

\* How the operation a tool calls ends: it returns its result, raises a
\* GitHubError, or raises another exception.
Outcomes ==
  {[kind |-> "ok"]}
    \cup {[kind |-> "GitHubError", error |-> d] : d \in MappedErrors}
    \cup {[kind |-> "Exception", text |-> x] : x \in ExcTexts}

\* format_github_error: the label of the error's class and, for a
\* GitHubRateLimitError, error.reset_at.isoformat(), which only a datetime has.
FormatRaises(d) == d.kind = "RateLimit" /\ d.reset_at # "datetime"

format_github_error(d) ==
  [label |-> CASE d.kind = "Validation" -> "Validation Error"
               [] d.kind = "NotFound" -> "Not Found"
               [] d.kind = "Authentication" -> "Authentication Failed"
               [] d.kind = "Permission" -> "Permission Denied"
               [] d.kind = "RateLimit" -> "Rate Limit Exceeded"
               [] d.kind = "Conflict" -> "Conflict"
               [] OTHER -> "GitHub API Error",
   resets |-> IF d.kind = "RateLimit" THEN d.reset_at ELSE "absent"]

\* The envelopes: the success one has no "is_error" key.
Success(text) ==
  [status |-> "returned", keys |-> {"content"},
   content |-> <<[type |-> "text", text |-> text]>>]
Failure(text) ==
  [status |-> "returned", keys |-> {"content", "is_error"}, is_error |-> TRUE,
   content |-> <<[type |-> "error", text |-> text]>>]
\* An exception that leaves the tool function.
Propagated(cls) == [status |-> "raised", exception |-> cls]

\* try: result = issues.<operation>(...); return {...}
\* except GitHubError as e: return {... format_github_error(e) ...}
\* except Exception as e: return {... "Internal server error: ..." ...}
\* An exception raised inside the first handler is not caught by the second.
ToolBody(t, o) ==
  CASE o.kind = "ok" ->
         Success(IF t \in JsonTools THEN "json" ELSE "fixed")
    [] o.kind = "GitHubError" ->
         IF FormatRaises(o.error)
           THEN Propagated("AttributeError")
           ELSE Failure(format_github_error(o.error))
    [] o.kind = "Exception" ->
         Failure(IF o.text # "" THEN o.text ELSE "An unexpected error occurred")

ToolInit ==
  /\ LifeInit /\ env = "unset"
  /\ exc = NoExc /\ mapped = NoMapped
  /\ tool \in Tools
  /\ outcome \in Outcomes
  /\ envelope = NoEnvelope
  /\ FacadeIdle /\ RateIdle /\ PageIdle /\ UtilIdle /\ UpdIdle /\ PushIdle /\ WrapIdle

\* A tool whose operation returns or raises.
ToolCall ==
  /\ tool # "none" /\ envelope = NoEnvelope
  /\ envelope' = ToolBody(tool, outcome)
  /\ UNCHANGED <<notTool, tool, outcome>>

NextTool == ToolCall
SpecTool == ToolInit /\ [][NextTool]_vars

Failed == outcome.kind # "ok"

\* C12: no exception crosses the tool boundary; whatever the operation did
\* (returned, raised a GitHubError of any kind, raised another exception) the
\* tool returns an envelope, and the envelope has is_error true and exactly
\* one content item, of type "error", exactly when the operation failed.
C12_ToolBoundary ==
  envelope # NoEnvelope =>
    /\ envelope.status = "returned"
    /\ ("is_error" \in envelope.keys /\ envelope.is_error) <=> Failed
    /\ Failed => /\ Len(envelope.content) = 1
                 /\ envelope.content[1].type = "error"
    /\ ~Failed => envelope.content[1].type = "text"

\* ------------------------------------------------------ facade operations
\* One remote call of a facade operation, the except clause that receives a
\* GithubException raised by it, and the resource hint handed to the mapper.
Call(o, c, h, hint) == [op |-> o, call |-> c, handler |-> h, hint |-> hint]

\* client.get_repo(...): GitHubClient.get_repo maps the failure itself.
RepoCall(o) == Call(o, "get_repo", "get_repo", "repository")
\* A call covered only by the operation's own `except GithubException`.
Outer(o, c, hint) == Call(o, c, "outer", hint)

IssueOps == {"create_issue", "get_issue", "update_issue", "list_issues",
             "add_issue_comment", "list_issue_comments",
             "update_issue_comment", "delete_issue_comment",
             "add_issue_labels", "remove_issue_label"}
RepoOps == {"get_repository", "fork_repository", "get_file_contents",
            "create_or_update_file", "push_files", "create_branch",
            "list_commits"}

FacadeCalls ==
  {RepoCall(o) : o \in IssueOps \cup RepoOps}
    \cup {Outer("create_issue", "create_issue", "none"),
          Call("create_issue", "get_milestone", "milestone", "none"),
          Outer("get_issue", "get_issue", "none"),
          Outer("update_issue", "get_issue", "none"),
          Call("update_issue", "get_milestone", "milestone", "none"),
          Outer("update_issue", "edit", "none"),
          Call("list_issues", "get_issues", "get_issues", "none"),
          Call("list_issues", "get_page", "paging", "none"),
          Outer("add_issue_comment", "get_issue", "none"),
          Outer("add_issue_comment", "create_comment", "none"),
          Outer("list_issue_comments", "get_issue", "none"),
          Outer("list_issue_comments", "get_comments", "none"),
          Outer("list_issue_comments", "get_page", "none"),
          Outer("update_issue_comment", "get_comment", "none"),
          Outer("update_issue_comment", "edit", "none"),
          Outer("delete_issue_comment", "get_comment", "none"),
          Outer("delete_issue_comment", "delete", "none"),
          Outer("add_issue_labels", "add_to_labels", "none"),
          Outer("remove_issue_label", "remove_from_labels", "none"),
          Outer("create_repository", "create_repo", "repository"),
          Outer("fork_repository", "create_fork", "repository"),
          Outer("search_repositories", "search_repositories", "repository"),
          Outer("get_file_contents", "get_contents", "content_file"),
          Outer("create_or_update_file", "create_file", "content_file"),
          Call("push_files", "get_contents", "sha_lookup", "content_file"),
          Outer("push_files", "create_file", "content_file"),
          Outer("create_branch", "get_git_ref", "git_ref"),
          Outer("create_branch", "create_git_ref", "git_ref"),
          Outer("list_commits", "get_commits", "commit")}

\* The failures one remote call raises: a GithubException of any status
\* whose body is {"message": <one word>}, with any headers.
FacadeFailures ==
  {e \in Exceptions :
     /\ ~e.rle /\ e.hint = "none"
     /\ e.body.type = "dict" /\ e.body.hasMsg /\ Len(e.body.msg) = 1
     /\ e.body.resource = "none"}

\* What the caller of a facade operation gets: its result, or a GitHubError
\* with the class and attributes of error and a message that is either made
\* from the failure by the mapper or a text of the operation's own.
Returned == [kind |-> "returned"]
Raised(error, message) ==
  [kind |-> "GitHubError", error |-> error, message |-> message]

\* raise client._handle_github_exception(e, resource_hint=hint)
MapperError(e, hint) ==
  Raised(client_handle_github_exception([e EXCEPT !.hint = hint]),
         "from failure")

FacadeInit ==
  /\ LifeInit /\ env = "unset"
  /\ mapped = NoMapped
  /\ ToolIdle /\ RateIdle /\ PageIdle /\ UtilIdle /\ UpdIdle /\ PushIdle /\ WrapIdle
  /\ facade \in FacadeCalls
  /\ exc \in FacadeFailures
  /\ raised = NoRaised
  /\ issued = 0

\* except GithubException as e: raise ..._handle_github_exception(e[, hint]),
\* in the operation, in GitHubClient.get_repo or around repository.get_issues
FacadeMapped ==
  /\ facade # NoFacade /\ raised = NoRaised
  /\ facade.handler \in {"outer", "get_repo", "get_issues"}
  /\ raised' = MapperError(exc, facade.hint)
  /\ issued' = issued + 1
  /\ UNCHANGED <<notFacade, exc, facade>>

\* create_issue, update_issue: repository.get_milestone(milestone) inside
\* try/except Exception: raise GitHubError("Invalid milestone number: ...");
\* the new error is no GithubException and passes the outer clause.
FacadeMilestone ==
  /\ facade # NoFacade /\ raised = NoRaised
  /\ facade.handler = "milestone"
  /\ raised' = Raised(DomainError("Unknown", "absent", "none"),
                      "Invalid milestone number")
  /\ issued' = issued + 1
  /\ UNCHANGED <<notFacade, exc, facade>>

\* list_issues: get_page / iteration of the PaginatedList inside
\* try/except Exception: raise GitHubError("Error retrieving issues: ...")
FacadePaging ==
  /\ facade # NoFacade /\ raised = NoRaised
  /\ facade.handler = "paging"
  /\ raised' = Raised(DomainError("Unknown", "absent", "none"),
                      "Error retrieving issues")
  /\ issued' = issued + 1
  /\ UNCHANGED <<notFacade, exc, facade>>

\* push_files: repository.get_contents(...) inside
\* try/except GithubException: pass; the operation goes on to create_file
\* and, that call succeeding, returns its result.
FacadeShaLookup ==
  /\ facade # NoFacade /\ raised = NoRaised
  /\ facade.handler = "sha_lookup"
  /\ raised' = Returned
  /\ issued' = issued + 1
  /\ UNCHANGED <<notFacade, exc, facade>>

NextFacade == FacadeMapped \/ FacadeMilestone \/ FacadePaging \/ FacadeShaLookup
SpecFacade == FacadeInit /\ [][NextFacade]_vars

\* C13: a GithubException raised by any remote call of a facade operation
\* reaches the caller as the GitHubError the mapper makes of that failure;
\* it is neither dropped nor replaced by another error.
C13_FailureReachesCaller ==
  raised # NoRaised => raised = MapperError(exc, facade.hint)

\* --------------------------------------------------- rate limit, backoff
\* client/rate_limit.py. Durations and times are in tenths of a second.
\* Largest attempt number and largest max_attempts of a call.
MaxAttempts == 4
\* Largest jitter added to a delay outside deterministic mode.
MaxJitter == 2

\* base_delay: 2.0 s by default, 0.1 s in test mode.
DefaultBaseDelay == 20
TestBaseDelay == 1
BaseDelays == {TestBaseDelay, DefaultBaseDelay}
Jitters == 1..MaxJitter

\* reset_time relative to the time of the call: past, now, future (1 h).
ResetTimes == {-100, -1, 0, 1, 20, 36000}
\* buffer_seconds: 0 s, 1 s, 5 s
Buffers == {0, 10, 50}

\* The RateLimitExceededException handed to handle_rate_limit_with_backoff.
RateErrors ==
  {[type |-> "RateLimitExceededException", status |-> 403,
    message |-> m] : m \in {"API rate limit exceeded", "secondary rate limit"}}

RECURSIVE Pow2(_)
Pow2(n) == IF n = 0 THEN 1 ELSE 2 * Pow2(n - 1)

Max(a, b) == IF a >= b THEN a ELSE b

RateReturned == [status |-> "returned"]
Delay(d) == [status |-> "returned", delay |-> d]
RetryLimit == [status |-> "raised", error |-> "Maximum retry attempts"]
ReRaised(error) == [status |-> "raised", error |-> error]

\* A delay that grows by base_delay with each attempt.
exponential_backoff_linear(attempt, max_attempts, base_delay, deterministic, jitter) ==
  IF attempt >= max_attempts THEN RetryLimit
  ELSE Delay(base_delay * (attempt + 1)
               + (IF deterministic THEN 0 ELSE jitter))

\* A limit that lets attempt = max_attempts through.
exponential_backoff_late(attempt, max_attempts, base_delay, deterministic, jitter) ==
  IF attempt > max_attempts THEN RetryLimit
  ELSE Delay(base_delay * Pow2(attempt)
               + (IF deterministic THEN 0 ELSE jitter))

\* exponential_backoff(attempt, max_attempts, base_delay, deterministic):
\* fails when attempt >= max_attempts, else base_delay * 2^attempt, plus
\* jitter outside deterministic mode.
exponential_backoff(attempt, max_attempts, base_delay, deterministic, jitter) ==
  IF attempt >= max_attempts THEN RetryLimit
  ELSE Delay(base_delay * Pow2(attempt)
               + (IF deterministic THEN 0 ELSE jitter))

\* A wait of reset_time - now + buffer_seconds, whatever its sign.
WaitDurationUnclamped(reset_time, buffer_seconds) == reset_time + buffer_seconds

\* wait_for_rate_limit_reset(reset_time, buffer_seconds) sleeps until
\* max(now, reset_time) + buffer_seconds; now is 0.
WaitDuration(reset_time, buffer_seconds) == Max(0, reset_time) + buffer_seconds

\* The sleeps and the end of a handle_rate_limit_with_backoff call that
\* sleeps before it looks at the attempt number.
handle_rate_limit_with_backoff_sleepy(c, jitter) ==
  LET base == IF c.test_mode THEN TestBaseDelay ELSE DefaultBaseDelay
      d == base * Pow2(c.attempt) + (IF c.deterministic THEN 0 ELSE jitter)
  IN IF c.attempt >= c.max_attempts
       THEN [sleeps |-> <<d>>, result |-> ReRaised(c.error)]
       ELSE [sleeps |-> <<d>>, result |-> RateReturned]

\* A handler that gives up one attempt late.
handle_rate_limit_with_backoff_late(c, jitter) ==
  LET base == IF c.test_mode THEN TestBaseDelay ELSE DefaultBaseDelay
  IN IF c.attempt > c.max_attempts
       THEN [sleeps |-> <<>>, result |-> ReRaised(c.error)]
       ELSE [sleeps |-> <<base * Pow2(c.attempt)
                           + (IF c.deterministic THEN 0 ELSE jitter)>>,
             result |-> RateReturned]

\* handle_rate_limit_with_backoff(github, exception, attempt, max_attempts,
\* deterministic, test_mode): re-raises exception when attempt >=
\* max_attempts, else sleeps exponential_backoff(...) and returns.
handle_rate_limit_with_backoff(c, jitter) ==
  LET base == IF c.test_mode THEN TestBaseDelay ELSE DefaultBaseDelay
  IN IF c.attempt >= c.max_attempts
       THEN [sleeps |-> <<>>, result |-> ReRaised(c.error)]
       ELSE [sleeps |-> <<exponential_backoff(c.attempt, c.max_attempts, base,
                                               c.deterministic, jitter).delay>>,
             result |-> RateReturned]

RateCalls ==
  [fn : {"exponential_backoff"}, attempt : 0..MaxAttempts,
   max_attempts : 0..MaxAttempts, base_delay : BaseDelays,
   deterministic : BOOLEAN]
    \cup [fn : {"wait_for_rate_limit_reset"}, reset_time : ResetTimes,
          buffer_seconds : Buffers]
    \cup [fn : {"handle_rate_limit_with_backoff"}, error : RateErrors,
          attempt : 0..MaxAttempts, max_attempts : 0..MaxAttempts,
          deterministic : BOOLEAN, test_mode : BOOLEAN]

RateInit ==
  /\ LifeInit /\ env = "unset"
  /\ exc = NoExc /\ mapped = NoMapped
  /\ ToolIdle /\ FacadeIdle /\ PageIdle /\ UtilIdle /\ UpdIdle /\ PushIdle /\ WrapIdle
  /\ rlcall \in RateCalls
  /\ rlresult = NoRlResult
  /\ clock = 0
  /\ sleeps = <<>>
  /\ retry_attempt = 0

RECURSIVE SumSeq(_)
SumSeq(q) == IF q = <<>> THEN 0 ELSE q[1] + SumSeq(Tail(q))

ExponentialBackoff ==
  /\ rlcall.fn = "exponential_backoff" /\ rlresult = NoRlResult
  /\ \E j \in Jitters :
       rlresult' = exponential_backoff(rlcall.attempt, rlcall.max_attempts,
                                       rlcall.base_delay, rlcall.deterministic, j)
  /\ UNCHANGED <<notRate, rlcall, clock, sleeps, retry_attempt>>

WaitForRateLimitReset ==
  /\ rlcall.fn = "wait_for_rate_limit_reset" /\ rlresult = NoRlResult
  /\ LET d == WaitDuration(rlcall.reset_time, rlcall.buffer_seconds)
     IN /\ sleeps' = <<d>>
        /\ clock' = clock + d
  /\ rlresult' = RateReturned
  /\ UNCHANGED <<notRate, rlcall, retry_attempt>>

HandleRateLimitWithBackoff ==
  /\ rlcall.fn = "handle_rate_limit_with_backoff" /\ rlresult = NoRlResult
  /\ \E j \in Jitters :
       LET h == handle_rate_limit_with_backoff(rlcall, j)
       IN /\ sleeps' = h.sleeps
          /\ clock' = clock + SumSeq(h.sleeps)
          /\ rlresult' = h.result
  /\ UNCHANGED <<notRate, rlcall, retry_attempt>>

NextRate == ExponentialBackoff \/ WaitForRateLimitReset \/ HandleRateLimitWithBackoff
SpecRate == RateInit /\ [][NextRate]_vars

RateDone(fn) == rlcall.fn = fn /\ rlresult # NoRlResult

\* C14: handle_rate_limit_with_backoff with attempt >= max_attempts re-raises
\* the error it was given, the same type and content, without sleeping; with
\* attempt < max_attempts it sleeps once and returns without raising.
C14_HandleWithBackoff ==
  RateDone("handle_rate_limit_with_backoff") =>
    IF rlcall.attempt >= rlcall.max_attempts
      THEN /\ rlresult = ReRaised(rlcall.error)
           /\ sleeps = <<>> /\ clock = 0
      ELSE /\ rlresult = RateReturned
           /\ Len(sleeps) = 1

C14_Witness ==
  /\ RateDone("handle_rate_limit_with_backoff")
  /\ rlcall.attempt = 2 /\ rlcall.max_attempts = 2 /\ rlcall.test_mode
  /\ rlresult.status = "raised"
  /\ rlresult.error.type = "RateLimitExceededException"

\* C15: in deterministic mode the delay of every attempt in
\* 0..max_attempts-1 is base_delay * 2^attempt exactly; with base_delay 2.0
\* the delays of attempts 0, 1, 2 are 2.0, 4.0, 8.0.
C15_DeterministicDelay ==
  (/\ RateDone("exponential_backoff") /\ rlcall.deterministic
   /\ rlcall.attempt < rlcall.max_attempts) =>
    /\ rlresult.status = "returned"
    /\ rlresult.delay = rlcall.base_delay * Pow2(rlcall.attempt)
    /\ (rlcall.base_delay = 20 /\ rlcall.attempt = 0) => rlresult.delay = 20
    /\ (rlcall.base_delay = 20 /\ rlcall.attempt = 1) => rlresult.delay = 40
    /\ (rlcall.base_delay = 20 /\ rlcall.attempt = 2) => rlresult.delay = 80

C15_Witness ==
  /\ RateDone("exponential_backoff") /\ rlcall.deterministic
  /\ rlcall.base_delay = 20 /\ rlcall.attempt = 2 /\ rlcall.max_attempts = 3
  /\ rlresult = Delay(80)

\* C17: exponential_backoff fails with the retry-limit error, and returns no
\* delay, for every call with attempt >= max_attempts; it returns a delay
\* for every call with 0 <= attempt < max_attempts.
C17_RetryLimit ==
  RateDone("exponential_backoff") =>
    IF rlcall.attempt >= rlcall.max_attempts
      THEN rlresult = RetryLimit
      ELSE rlresult.status = "returned" /\ rlresult.delay > 0

C17_Witness ==
  /\ RateDone("exponential_backoff")
  /\ rlcall.attempt = rlcall.max_attempts /\ rlcall.max_attempts = MaxAttempts
  /\ rlresult = RetryLimit

\* C18: wait_for_rate_limit_reset(reset_time, buffer_seconds) blocks for
\* max(0, reset_time - now) + buffer_seconds on the clock: buffer_seconds
\* when reset_time is past, (reset_time - now) + buffer_seconds when it is
\* ahead, 3605 s for a reset_time one hour ahead and a buffer of 5 s.
C18_WaitDuration ==
  RateDone("wait_for_rate_limit_reset") =>
    /\ rlresult = RateReturned
    /\ rlcall.reset_time <= 0 => clock = rlcall.buffer_seconds
    /\ rlcall.reset_time > 0 => clock = rlcall.reset_time + rlcall.buffer_seconds
    /\ (rlcall.reset_time = 36000 /\ rlcall.buffer_seconds = 50) => clock = 36050

C18_Witness ==
  /\ RateDone("wait_for_rate_limit_reset")
  /\ rlcall.reset_time = -100 /\ rlcall.buffer_seconds = 10
  /\ clock = 10

\* ------------------------------------------------------------- pagination
\* Largest number of remote items below one block of the PaginatedList.
MaxItems == 12
\* The block size of a PaginatedList: PyGithub's default per_page, which
\* Github(auth=auth) leaves as it is.
PageSize == 30

ItemCounts == {0, 1, MaxItems, PageSize + MaxItems}
Pages == -1..4
PerPages == {-5, 0, 1, 5, PageSize, 100, 101}
ListOps == {"list_issues", "list_issue_comments", "list_commits",
            "search_repositories"}

Min(a, b) == IF a <= b THEN a ELSE b

\* The remote sequence: items 1..n in the remote order.
Items(n) == [i \in 1..n |-> i]

\* items[a:b] for 0 <= a
Slice(items, a, b) ==
  IF a >= Min(b, Len(items)) THEN <<>>
  ELSE SubSeq(items, a + 1, Min(b, Len(items)))

\* PaginatedList.get_page(i): block i of PageSize items; a block outside the
\* data, before or after it, is empty.
GetPage(items, i) ==
  IF i < 0 THEN <<>> ELSE Slice(items, i * PageSize, (i + 1) * PageSize)

\* A request: page and per_page are None (has_* false) or an int.
ListRequests ==
  {r \in [op : ListOps, n : ItemCounts, has_page : BOOLEAN, page : Pages,
          has_per_page : BOOLEAN, per_page : PerPages \cup {-1}] :
     /\ ~r.has_page => r.page = 0
     /\ ~r.has_per_page => r.per_page = -1
     /\ r.has_per_page => r.per_page # -1}

ListReturned(items) == [status |-> "returned", items |-> items]
InvalidParameter(text) == [status |-> "raised", error |-> text]

PageInit ==
  /\ LifeInit /\ env = "unset"
  /\ exc = NoExc /\ mapped = NoMapped
  /\ ToolIdle /\ FacadeIdle /\ RateIdle /\ UtilIdle /\ UpdIdle /\ PushIdle /\ WrapIdle
  /\ listreq \in ListRequests
  /\ listresp = NoListResp
  /\ fetched = {}

\* The three branches shared by list_issues and list_issue_comments:
\* get_page(page - 1), else list(paginated[:per_page]), else list(paginated);
\* per_page is not looked at when page is given.
PageBranches(r) ==
  IF r.has_page
    THEN /\ fetched' = {r.page - 1}
         /\ listresp' = ListReturned(GetPage(Items(r.n), r.page - 1))
  ELSE IF r.has_per_page
    THEN /\ fetched' = {}
         /\ listresp' = ListReturned(Slice(Items(r.n), 0, r.per_page))
  ELSE /\ fetched' = {}
       /\ listresp' = ListReturned(Items(r.n))

\* operations/issues.py, list_issues: validates page and per_page, then
\* takes one of the three branches.
ListIssues ==
  /\ listreq.op = "list_issues" /\ listresp = NoListResp
  /\ IF listreq.has_page /\ listreq.page < 1
       THEN /\ listresp' = InvalidParameter("Invalid page number")
            /\ fetched' = {}
     ELSE IF listreq.has_per_page /\ listreq.per_page < 1
       THEN /\ listresp' = InvalidParameter("Invalid per_page value")
            /\ fetched' = {}
     ELSE IF listreq.has_per_page /\ listreq.per_page > 100
       THEN /\ listresp' = InvalidParameter("per_page cannot exceed 100")
            /\ fetched' = {}
     ELSE PageBranches(listreq)
  /\ UNCHANGED <<notPage, listreq>>

\* operations/issues.py, list_issue_comments: no validation.
ListIssueComments ==
  /\ listreq.op = "list_issue_comments" /\ listresp = NoListResp
  /\ PageBranches(listreq)
  /\ UNCHANGED <<notPage, listreq>>

\* converters/common/pagination.py, get_paginated_items(paginated, page,
\* per_page), used by list_commits and search_repositories: page < 1 and
\* per_page outside 1..100 are invalid; page p with per_page k is items
\* (p-1)*k .. p*k-1, with the block size for k when per_page is None.
GetPaginatedItems ==
  /\ listreq.op \in {"list_commits", "search_repositories"}
  /\ listresp = NoListResp
  /\ LET r == listreq
         k == IF r.has_per_page THEN r.per_page ELSE PageSize
     IN IF r.has_page /\ r.page < 1
          THEN /\ listresp' = InvalidParameter("Invalid page number")
               /\ fetched' = {}
        ELSE IF r.has_per_page /\ (r.per_page < 1 \/ r.per_page > 100)
          THEN /\ listresp' = InvalidParameter("Invalid per_page value")
               /\ fetched' = {}
        ELSE IF r.has_page
          THEN /\ listresp' = ListReturned(Slice(Items(r.n), (r.page - 1) * k,
                                                 r.page * k))
               /\ fetched' = {}
        ELSE IF r.has_per_page
          THEN /\ listresp' = ListReturned(Slice(Items(r.n), 0, k))
               /\ fetched' = {}
        ELSE /\ listresp' = ListReturned(Items(r.n))
             /\ fetched' = {}
  /\ UNCHANGED <<notPage, listreq>>

NextPage == ListIssues \/ ListIssueComments \/ GetPaginatedItems
SpecPage == PageInit /\ [][NextPage]_vars

ListDone == listresp # NoListResp

\* C19: for N items and a request with both page = p >= 1 and per_page = k
\* in 1..100, the list operation returns items[(p-1)*k : p*k] in order
\* (N = 12, k = 5: page 2 is items 5..9, page 3 is items 10..11, page 4 is
\* empty).
C19_PageWindow ==
  (/\ ListDone /\ listreq.has_page /\ listreq.page >= 1
   /\ listreq.has_per_page /\ listreq.per_page \in 1..100) =>
    listresp = ListReturned(Slice(Items(listreq.n),
                                  (listreq.page - 1) * listreq.per_page,
                                  listreq.page * listreq.per_page))

\* C20: every list operation rejects a request whose page is less than 1
\* with an invalid-parameter error and never asks for block page - 1.
C20_PageBelowOneRejected ==
  (ListDone /\ listreq.has_page /\ listreq.page < 1) =>
    /\ listresp.status = "raised"
    /\ fetched = {}

\* C21: a list request is rejected with an invalid-parameter error for every
\* per_page outside 1..100 (0, negative, 101 and above) and is accepted for
\* every per_page in 1..100, 100 included.
C21_PerPageRange ==
  (ListDone /\ listreq.has_per_page) =>
    /\ listreq.per_page \notin 1..100 => listresp.status = "raised"
    /\ (listreq.per_page \in 1..100
        /\ (listreq.has_page => listreq.page >= 1))
          => listresp.status = "returned"

\* The window of a request as its caller counts it: per_page items a page,
\* or the block size when per_page is None.
RequestedSize(r) == IF r.has_per_page THEN r.per_page ELSE PageSize
Beyond(r) ==
  r.has_page /\ r.page >= 1 /\ (r.page - 1) * RequestedSize(r) >= r.n

\* C22: a request for a page beyond the available data returns an empty
\* list and raises no error, whatever the length of the sequence, the empty
\* sequence included.
C22_BeyondLastPage ==
  (/\ ListDone /\ Beyond(listreq)
   /\ (listreq.has_per_page => listreq.per_page \in 1..100)) =>
    listresp = ListReturned(<<>>)

\* The label the formatting contract gives each kind of error.
KindLabel(kind) ==
  CASE kind = "Validation" -> "Validation Error"
    [] kind = "NotFound" -> "Not Found"
    [] kind = "Authentication" -> "Authentication Failed"
    [] kind = "Permission" -> "Permission Denied"
    [] kind = "RateLimit" -> "Rate Limit Exceeded"
    [] kind = "Conflict" -> "Conflict"
    [] OTHER -> "GitHub API Error"

Formatted == envelope # NoEnvelope /\ outcome.kind = "GitHubError"

\* C23: format_github_error is total: for a GitHubError of any kind it
\* returns the text "<label of the kind>: <message>" and never raises, with
\* the reset time appended for a rate-limit error, also when that error has
\* no reset_at.
C23_FormatTotal ==
  Formatted =>
    /\ envelope.status = "returned"
    /\ envelope.content[1].text.label = KindLabel(outcome.error.kind)
    /\ outcome.error.kind = "RateLimit"
         => envelope.content[1].text.resets = outcome.error.reset_at

\* C24: outside the rate limiter every error is single-shot: in one
\* invocation of a facade operation or of GitHubClient.get_repo the remote
\* call that fails is issued once, never again, and the invocation ends by
\* raising an error, exactly one.
C24_SingleShot ==
  raised # NoRaised =>
    /\ issued = 1
    /\ raised.kind = "GitHubError"

\* -------------------------------------------------------------- retry loop
\* A caller's retry loop around a remote call:
\*   attempt = 0
\*   while True:
\*     try: return call()
\*     except RateLimitExceededException as e:
\*       handle_rate_limit_with_backoff(github, e, attempt, max_attempts, ...)
\*       attempt += 1
RetryLoops ==
  [fn : {"retry_loop"}, error : RateErrors, max_attempts : 0..MaxAttempts,
   deterministic : BOOLEAN, test_mode : BOOLEAN]

RetryInit ==
  /\ LifeInit /\ env = "unset"
  /\ exc = NoExc /\ mapped = NoMapped
  /\ ToolIdle /\ FacadeIdle /\ PageIdle /\ UtilIdle /\ UpdIdle /\ PushIdle /\ WrapIdle
  /\ rlcall \in RetryLoops
  /\ rlresult = NoRlResult
  /\ clock = 0
  /\ sleeps = <<>>
  /\ retry_attempt = 0

\* The arguments of the loop's handle_rate_limit_with_backoff call.
HandleCall == [rlcall EXCEPT !.fn = "handle_rate_limit_with_backoff"]
               @@ [attempt |-> retry_attempt]

\* The remote call returns: the loop ends with its value.
RetrySucceeds ==
  /\ rlcall.fn = "retry_loop" /\ rlresult = NoRlResult
  /\ rlresult' = RateReturned
  /\ UNCHANGED <<notRate, rlcall, clock, sleeps, retry_attempt>>

\* The remote call fails with the rate-limit error: the handler re-raises it
\* and ends the loop, or sleeps and lets the loop go round again.
RetryFails ==
  /\ rlcall.fn = "retry_loop" /\ rlresult = NoRlResult
  /\ \E j \in Jitters :
       LET h == handle_rate_limit_with_backoff(HandleCall, j)
       IN /\ sleeps' = sleeps \o h.sleeps
          /\ clock' = clock + SumSeq(h.sleeps)
          /\ IF h.result.status = "raised"
               THEN rlresult' = h.result /\ retry_attempt' = retry_attempt
               ELSE rlresult' = rlresult /\ retry_attempt' = retry_attempt + 1
  /\ UNCHANGED <<notRate, rlcall>>

NextRetry == RetrySucceeds \/ RetryFails
\* The loop keeps running: some step is taken while one is possible.
SpecRetry == RetryInit /\ [][NextRetry]_vars /\ WF_vars(NextRetry)

RetryDone == rlcall.fn = "retry_loop" /\ rlresult # NoRlResult

\* C25: a retry loop that calls handle_rate_limit_with_backoff with attempt
\* 0, 1, 2, ... after each rate-limit failure always terminates; it sleeps
\* at most max_attempts times, and when the call keeps failing it ends by
\* raising the triggering error, with attempt at max_attempts.
C25_RetryLoopEnds ==
  /\ [](rlcall.fn = "retry_loop" =>
          /\ Len(sleeps) <= rlcall.max_attempts
          /\ retry_attempt <= rlcall.max_attempts
          /\ (rlresult # NoRlResult /\ rlresult.status = "raised") =>
               /\ rlresult = ReRaised(rlcall.error)
               /\ retry_attempt = rlcall.max_attempts
               /\ Len(sleeps) = rlcall.max_attempts)
  /\ <>RetryDone

C25_Witness ==
  /\ RetryDone /\ rlresult.status = "raised"
  /\ rlcall.max_attempts = 3 /\ Len(sleeps) = 3

\* ------------------------------------------------- the Ready handle's frame
\* The fixture's step: the only step that lets a new test case begin.
ResetStep == fresh' /\ ~fresh
\* The cached handle, its session and its initialized flag are as before.
HandleKept == instance' = instance /\ objs'[instance] = objs[instance]
\* C26: once the cached handle is Ready, no step of get_instance(), of the
\* github property, of get_repo() or of a direct constructor call changes the
\* cached handle, its session or its initialized flag; only a reset does.
C26_ReadyIsReadOnly ==
  [][(ClientState = "Ready" /\ ~ResetStep) => HandleKept]_vars

\* -------------------------------------------- error responses (common/utils.py)
UtilStatuses == {400, 401, 403, 404, 409, 422, 500}
\* A header of the response: absent, or its text.
RemainingHeaders == {"absent", "0", "42", "many"}
ResetHeaders == {"absent", "0", "1700000000"}
Texts == {"Bad credentials", "API rate limit exceeded"}

\* A parsed body: a JSON object with or without a "message" key.
Dicts == {[hasMsg |-> TRUE, msg |-> m] : m \in Texts}
           \cup {[hasMsg |-> FALSE, msg |-> ""]}
NoDict == [hasMsg |-> FALSE, msg |-> ""]

\* The response and the error_data argument (None unless the caller parsed the
\* body already); response.json() raises ValueError when the body is not JSON.
Responses ==
  {r \in [status_code : UtilStatuses, remaining : RemainingHeaders,
          reset : ResetHeaders, has_error_data : BOOLEAN, error_data : Dicts,
          json_ok : BOOLEAN, json : Dicts, text : Texts] :
     /\ ~r.has_error_data => r.error_data = NoDict
     /\ (r.has_error_data \/ ~r.json_ok) => r.json = NoDict
     /\ r.has_error_data => r.json_ok}

\* int(text): the number, or ValueError for a text that is not a numeral.
IsNumeral(h) == h \in {"0", "42", "1700000000"}
IntOf(h) ==
  CASE h = "0" -> 0
    [] h = "42" -> 42
    [] h = "1700000000" -> 1700000000

\* response.headers.get(name, "0")
HeaderOr0(h) == IF h = "absent" THEN "0" ELSE h

\* parse_rate_limit_headers: (remaining, reset_time), or the ValueError of int()
parse_rate_limit_headers(r) ==
  IF IsNumeral(HeaderOr0(r.remaining)) /\ IsNumeral(HeaderOr0(r.reset))
    THEN [ok |-> TRUE, remaining |-> IntOf(HeaderOr0(r.remaining)),
          reset_time |-> IntOf(HeaderOr0(r.reset))]
    ELSE [ok |-> FALSE, remaining |-> 0, reset_time |-> 0]

\* lines 103-107: the error_data given, else response.json(), else the text
ErrorData(r) ==
  IF r.has_error_data THEN r.error_data
  ELSE IF r.json_ok THEN r.json
  ELSE [hasMsg |-> TRUE, msg |-> r.text]

\* line 109: error_data.get("message", "Unknown error")
ErrorMessage(r) == IF ErrorData(r).hasMsg THEN ErrorData(r).msg ELSE "Unknown error"

\* The message of the error raised: the message itself, or, for the base
\* error, f"API error ({status_code}): {message}".
Plain(m) == [api_error |-> FALSE, status |-> 0, text |-> m]
ApiError(status, m) == [api_error |-> TRUE, status |-> status, text |-> m]
NoReset == -1
PError(kind, message, reset_time) ==
  [kind |-> kind, message |-> message, reset_time |-> reset_time]

\* process_error_response, lines 111-125
process_error_response(r) ==
  LET message == ErrorMessage(r)
      rl == parse_rate_limit_headers(r)
  IN CASE r.status_code = 401 -> PError("Authentication", Plain(message), NoReset)
       [] r.status_code = 403 ->
            IF ~rl.ok THEN PError("ValueError", Plain("invalid literal for int()"), NoReset)
            ELSE IF rl.remaining = 0 THEN PError("RateLimit", Plain(message), rl.reset_time)
            ELSE PError("Permission", Plain(message), NoReset)
       [] r.status_code = 404 -> PError("NotFound", Plain(message), NoReset)
       [] r.status_code = 409 -> PError("Conflict", Plain(message), NoReset)
       [] r.status_code = 422 -> PError("Validation", Plain(message), NoReset)
       [] OTHER -> PError("GitHubError", ApiError(r.status_code, message), NoReset)

UtilInit ==
  /\ LifeInit
  /\ env = "unset"
  /\ exc = NoExc
  /\ mapped = NoMapped
  /\ ToolIdle /\ FacadeIdle /\ RateIdle /\ PageIdle /\ UpdIdle /\ PushIdle /\ WrapIdle
  /\ response \in Responses
  /\ perror = NoPError

ProcessErrorResponse ==
  /\ response # NoResponse
  /\ perror = NoPError
  /\ perror' = process_error_response(response)
  /\ UNCHANGED <<notUtil, response>>

NextUtil == ProcessErrorResponse
SpecUtil == UtilInit /\ [][NextUtil]_vars

\* process_error_response has raised.
UtilDone == perror # NoPError
\* The kind the claim gives each status other than 403 and the listed ones.
ClaimedKind(status) ==
  CASE status = 401 -> "Authentication"
    [] status = 404 -> "NotFound"
    [] status = 409 -> "Conflict"
    [] status = 422 -> "Validation"
    [] OTHER -> "GitHubError"

\* C27: process_error_response raises RateLimit for a 403 whose
\* X-RateLimit-Remaining header is 0 and Permission for every other 403, one
\* without rate-limit headers included; 401, 404, 409 and 422 give
\* Authentication, NotFound, Conflict and Validation with the message of the
\* body, and any other status gives the base error whose message is
\* "API error (<status>): <message>".
C27_ProcessErrorResponse ==
  UtilDone =>
    /\ response.status_code = 403 =>
         perror.kind = IF response.remaining = "0" THEN "RateLimit" ELSE "Permission"
    /\ response.status_code # 403 =>
         /\ perror.kind = ClaimedKind(response.status_code)
         /\ perror.message =
              IF perror.kind = "GitHubError"
                THEN ApiError(response.status_code, ErrorMessage(response))
                ELSE Plain(ErrorMessage(response))

\* ------------------------------------------ update_issue (operations/issues.py)
Fields == {"title", "body", "state", "labels", "assignees", "milestone"}

\* The optional arguments: None, a value that is falsy (an empty text or
\* list), or a value; the milestone numbers 1 (exists) and 999 (does not).
UpdateRequests ==
  [title : {"None", "", "New title"}, body : {"None", "New body"},
   state : {"None", "closed"}, labels : {"None", "[]", "[bug]"},
   assignees : {"None", "[]"}, milestone : {"None", "1", "999"}]

\* The issue before the call.
OldIssue ==
  [number |-> 42, title |-> "Old title", body |-> "Old body", state |-> "open",
   labels |-> "[old]", assignees |-> "[octocat]", milestone |-> "None"]

UpdReturned(issue) == [status |-> "returned", issue |-> issue, error |-> "none"]
UpdRaised(error) == [status |-> "raised", issue |-> NoIssue, error |-> error]

UpdInit ==
  /\ LifeInit
  /\ env = "unset"
  /\ exc = NoExc
  /\ mapped = NoMapped
  /\ ToolIdle /\ FacadeIdle /\ RateIdle /\ PageIdle /\ UtilIdle /\ PushIdle /\ WrapIdle
  /\ updreq \in UpdateRequests
  /\ updpc = "get_repo"
  /\ kwargs = {}
  /\ remote_issue = OldIssue
  /\ snapshot = NoIssue
  /\ calls = <<>>
  /\ updresult = NoUpdResult

\* A remote call of update_issue: it succeeds, or PyGithub raises a
\* GithubException that line 169 maps to the GitHubError that is raised.
UpdFails ==
  /\ updresult' = UpdRaised("GitHubError")
  /\ updpc' = "done"

\* lines 133-134: client.get_repo(f"{owner}/{repo}")
UpdGetRepo ==
  /\ updpc = "get_repo"
  /\ calls' = Append(calls, "get_repo")
  /\ \/ updpc' = "get_issue" /\ UNCHANGED updresult
     \/ UpdFails
  /\ UNCHANGED <<notUpd, updreq, kwargs, remote_issue, snapshot>>

\* line 135: issue = repository.get_issue(issue_number)
UpdGetIssue ==
  /\ updpc = "get_issue"
  /\ calls' = Append(calls, "get_issue")
  /\ \/ updpc' = "kwargs" /\ snapshot' = remote_issue /\ UNCHANGED updresult
     \/ UpdFails /\ UNCHANGED snapshot
  /\ UNCHANGED <<notUpd, updreq, kwargs, remote_issue>>

\* lines 138-155: kwargs gets every argument that is not None; the milestone
\* is looked up first, and a lookup that fails raises "Invalid milestone number"
UpdBuildKwargs ==
  /\ updpc = "kwargs"
  /\ LET given == {f \in Fields : updreq[f] # "None"}
     IN IF "milestone" \notin given
          THEN /\ kwargs' = given
               /\ updpc' = "decide"
               /\ UNCHANGED <<calls, updresult>>
          ELSE /\ calls' = Append(calls, "get_milestone")
               /\ IF updreq.milestone = "1"
                    THEN /\ kwargs' = given
                         /\ updpc' = "decide"
                         /\ UNCHANGED updresult
                    ELSE /\ kwargs' = given \ {"milestone"}
                         /\ updresult' = UpdRaised("Invalid milestone number")
                         /\ updpc' = "done"
  /\ UNCHANGED <<notUpd, updreq, remote_issue, snapshot>>

\* A variant that calls issue.edit whatever kwargs holds.
UpdDecideAlwaysEdits ==
  /\ updpc = "decide"
  /\ updpc' = "edit"
  /\ UNCHANGED <<notUpd, updreq, kwargs, remote_issue, snapshot, calls, updresult>>

\* lines 158-159: if not kwargs: return convert_issue(issue)
UpdDecide ==
  /\ updpc = "decide"
  /\ IF kwargs = {}
       THEN /\ updresult' = UpdReturned(snapshot)
            /\ updpc' = "done"
       ELSE /\ updpc' = "edit"
            /\ UNCHANGED updresult
  /\ UNCHANGED <<notUpd, updreq, kwargs, remote_issue, snapshot, calls>>

\* issue.edit(**kwargs) on the remote: the fields named take the new values.
Edited(issue) ==
  [f \in DOMAIN issue |-> IF f \in kwargs THEN updreq[f] ELSE issue[f]]

\* line 162: issue.edit(**kwargs)
UpdEdit ==
  /\ updpc = "edit"
  /\ calls' = Append(calls, "edit")
  /\ \/ updpc' = "refetch" /\ remote_issue' = Edited(remote_issue) /\ UNCHANGED updresult
     \/ UpdFails /\ UNCHANGED remote_issue
  /\ UNCHANGED <<notUpd, updreq, kwargs, snapshot>>

\* lines 165-166: the issue is fetched again and converted
UpdRefetch ==
  /\ updpc = "refetch"
  /\ calls' = Append(calls, "get_issue")
  /\ \/ updpc' = "done" /\ updresult' = UpdReturned(remote_issue)
     \/ UpdFails
  /\ UNCHANGED <<notUpd, updreq, kwargs, remote_issue, snapshot>>

NextUpd ==
  \/ UpdGetRepo
  \/ UpdGetIssue
  \/ UpdBuildKwargs
  \/ UpdDecide
  \/ UpdEdit
  \/ UpdRefetch
SpecUpd == UpdInit /\ [][NextUpd]_vars

\* update_issue has ended.
UpdDone == updpc = "done"
\* Every optional argument was left as None.
NoChanges == \A f \in Fields : updreq[f] = "None"
\* How often a remote call occurs in the log.
Count(name) == Cardinality({i \in 1..Len(calls) : calls[i] = name})

MaxFiles == 2
FilePaths == {"a.txt", "b.txt"}
FileContents == {"x", "y"}
FileContent == [path : FilePaths, content : FileContents]
PushRequests ==
  {[fn |-> "push_files", files |-> fs] :
     fs \in UNION {[1..n -> FileContent] : n \in 0..MaxFiles}}

\* The commit the branch points at before the call, and the one the call makes.
BaseCommit == "base"
NewCommit == "new"

\* The objects POST /git/blobs, /git/trees and /git/commits create.
Blob(i, content) == [kind |-> "blob", n |-> i, content |-> content]
Tree(entries) == [kind |-> "tree", n |-> Len(entries), content |-> "entries"]
Commit == [kind |-> "commit", n |-> 0, content |-> NewCommit]

PushReturned == [status |-> "returned", step |-> "update_ref"]
PushRaised(step) == [status |-> "raised", step |-> step]

PushInit ==
  /\ LifeInit
  /\ env = "unset"
  /\ exc = NoExc
  /\ mapped = NoMapped
  /\ ToolIdle /\ FacadeIdle /\ RateIdle /\ PageIdle /\ UtilIdle /\ UpdIdle /\ WrapIdle
  /\ pushreq \in PushRequests
  /\ pushpc = "read_ref"
  /\ blobs = <<>>
  /\ objects = {}
  /\ branch_ref = BaseCommit
  /\ pushlog = <<>>
  /\ pushresult = NoPushResult

\* A variant that deletes what it created when a step fails.
PushFailsRollback(step) ==
  /\ pushresult' = PushRaised(step)
  /\ pushpc' = "done"
  /\ objects' = {}
  /\ UNCHANGED <<blobs, branch_ref>>

\* process_response raises for a response that is not ok: the error leaves
\* push_files through the with block, and nothing is undone.
PushFails(step) ==
  /\ pushresult' = PushRaised(step)
  /\ pushpc' = "done"
  /\ UNCHANGED <<blobs, objects, branch_ref>>

\* lines 143-147: GET git/refs/heads/{branch}
PushReadRef ==
  /\ pushpc = "read_ref"
  /\ pushlog' = Append(pushlog, "read_ref")
  /\ \/ /\ pushpc' = IF Len(pushreq.files) = 0 THEN "tree" ELSE "blob"
        /\ UNCHANGED <<blobs, objects, branch_ref, pushresult>>
     \/ PushFails("read_ref")
  /\ UNCHANGED <<notPush, pushreq>>

\* lines 151-167: POST git/blobs for the next file of the list
PushCreateBlob ==
  /\ pushpc = "blob"
  /\ pushlog' = Append(pushlog, "blob")
  /\ LET i == Len(blobs) + 1
     IN \/ /\ objects' = objects \cup {Blob(i, pushreq.files[i].content)}
           /\ blobs' = Append(blobs, pushreq.files[i].path)
           /\ pushpc' = IF i = Len(pushreq.files) THEN "tree" ELSE "blob"
           /\ UNCHANGED <<branch_ref, pushresult>>
        \/ PushFails("blob")
  /\ UNCHANGED <<notPush, pushreq>>

\* lines 170-177: POST git/trees
PushCreateTree ==
  /\ pushpc = "tree"
  /\ pushlog' = Append(pushlog, "tree")
  /\ \/ /\ objects' = objects \cup {Tree(blobs)}
        /\ pushpc' = "commit"
        /\ UNCHANGED <<blobs, branch_ref, pushresult>>
     \/ PushFails("tree")
  /\ UNCHANGED <<notPush, pushreq>>

\* lines 180-188: POST git/commits
PushCreateCommit ==
  /\ pushpc = "commit"
  /\ pushlog' = Append(pushlog, "commit")
  /\ \/ /\ objects' = objects \cup {Commit}
        /\ pushpc' = "update_ref"
        /\ UNCHANGED <<blobs, branch_ref, pushresult>>
     \/ PushFails("commit")
  /\ UNCHANGED <<notPush, pushreq>>

\* lines 191-197: PATCH git/refs/heads/{branch}
PushUpdateRef ==
  /\ pushpc = "update_ref"
  /\ pushlog' = Append(pushlog, "update_ref")
  /\ \/ /\ branch_ref' = NewCommit
        /\ pushresult' = PushReturned
        /\ pushpc' = "done"
        /\ UNCHANGED <<blobs, objects>>
     \/ PushFails("update_ref")
  /\ UNCHANGED <<notPush, pushreq>>

NextPush ==
  \/ PushReadRef
  \/ PushCreateBlob
  \/ PushCreateTree
  \/ PushCreateCommit
  \/ PushUpdateRef
SpecPush == PushInit /\ [][NextPush]_vars

\* The requests of a complete run for n files, in order.
RECURSIVE BlobRequests(_)
BlobRequests(n) == IF n = 0 THEN <<>> ELSE Append(BlobRequests(n - 1), "blob")
FullRun(n) == <<"read_ref">> \o BlobRequests(n) \o <<"tree", "commit", "update_ref">>
IsPrefix(s, t) == Len(s) <= Len(t) /\ \A i \in 1..Len(s) : s[i] = t[i]
\* The requests that were answered ok: all but the last one of a failed run.
Succeeded == IF pushresult.status = "raised" THEN Len(pushlog) - 1 ELSE Len(pushlog)
\* The objects the first k requests of a complete run create.
CreatedBy(k) ==
  LET n == Len(pushreq.files)
  IN {Blob(i, pushreq.files[i].content) : i \in {j \in 1..n : j + 1 <= k}}
       \cup (IF k >= n + 2 THEN {Tree([i \in 1..n |-> pushreq.files[i].path])} ELSE {})
       \cup (IF k >= n + 3 THEN {Commit} ELSE {})

max_retries == 3
\* Number of calls for which the behaviour of the wrapped function is given.
MaxCalls == 4

\* How a call of the wrapped function ends: it returns, it raises a
\* GithubException with a status and a text, or it raises something else.
GithubExc(status, text) == [kind |-> "GithubException", status |-> status, text |-> text]
FuncEnds ==
  {[kind |-> "return", status |-> 0, text |-> <<>>],
   [kind |-> "Exception", status |-> 0, text |-> <<>>]}
    \cup {GithubExc(st, <<w>>) : st \in {403, 404}, w \in {"rate limit", "Rate Limit", "other"}}

\* line 81: e.status == 403 and "rate limit" in str(e).lower()
IsRateLimited(e) == e.status = 403 /\ Contains(e.text, "rate limit")

\* line 96
Exhausted == GithubExc(403, <<"Rate limit exceeded after 3 retries">>)
\* line 99
Unexpected == [kind |-> "RuntimeError", status |-> 0, text |-> <<>>]

WrapReturned == [status |-> "returned", exception |-> NoFuncEnd]
WrapRaised(e) == [status |-> "raised", exception |-> e]

WrapInit ==
  /\ LifeInit
  /\ env = "unset"
  /\ exc = NoExc
  /\ mapped = NoMapped
  /\ ToolIdle /\ FacadeIdle /\ RateIdle /\ PageIdle /\ UtilIdle /\ UpdIdle /\ PushIdle
  /\ script \in [1..MaxCalls -> FuncEnds]
  /\ wrappc = "while"
  /\ retry_count = 0
  /\ last_exception = NoFuncEnd
  /\ ncalls = 0
  /\ waits = <<>>
  /\ wrapresult = NoWrapResult

\* A variant of the loop test that allows one more round.
WrapContinuesOneMore == retry_count <= max_retries

\* line 76: while retry_count < max_retries
WrapContinues == retry_count < max_retries

\* lines 76-92: one round of the loop: the function is called; its value is
\* returned; a rate-limited GithubException is counted, slept on and kept; any
\* other exception is raised again.
WrapCall ==
  /\ wrappc = "while"
  /\ WrapContinues
  /\ ncalls < MaxCalls
  /\ ncalls' = ncalls + 1
  /\ LET e == script[ncalls + 1]
     IN CASE e.kind = "return" ->
               /\ wrapresult' = WrapReturned
               /\ wrappc' = "done"
               /\ UNCHANGED <<retry_count, last_exception, waits>>
          [] e.kind = "GithubException" /\ IsRateLimited(e) ->
               /\ retry_count' = retry_count + 1
               /\ waits' = Append(waits, Pow2(retry_count + 1))
               /\ last_exception' = e
               /\ UNCHANGED <<wrappc, wrapresult>>
          [] OTHER ->
               /\ wrapresult' = WrapRaised(e)
               /\ wrappc' = "done"
               /\ UNCHANGED <<retry_count, last_exception, waits>>
  /\ UNCHANGED <<notWrap, script>>

\* lines 94-99: after the loop
WrapExit ==
  /\ wrappc = "while"
  /\ ~WrapContinues
  /\ wrapresult' = IF last_exception # NoFuncEnd THEN WrapRaised(Exhausted)
                   ELSE WrapRaised(Unexpected)
  /\ wrappc' = "done"
  /\ UNCHANGED <<notWrap, script, retry_count, last_exception, ncalls, waits>>

NextWrap == WrapCall \/ WrapExit
\* The wrapper runs on: no line of it waits for anything but the sleep.
SpecWrap == WrapInit /\ [][NextWrap]_vars /\ WF_vars(NextWrap)

\* The wrapper has returned or raised.
WrapDone == wrappc = "done"

\* C30: the wrapper calls the wrapped function at most 3 times and ends; it
\* ends with the function's return, with the exception of the last call raised
\* again when that is not a 403 "rate limit" GithubException, or with a new
\* GithubException 403 after three rate-limited calls, and never with the
\* RuntimeError of its last line.
C30_WrapperEnds ==
  /\ [](script # <<>> =>
          /\ ncalls <= max_retries
          /\ WrapDone =>
               \/ /\ wrapresult = WrapReturned
                  /\ script[ncalls].kind = "return"
               \/ /\ wrapresult = WrapRaised(script[ncalls])
                  /\ script[ncalls].kind # "return"
                  /\ ~IsRateLimited(script[ncalls])
               \/ /\ wrapresult = WrapRaised(Exhausted)
                  /\ ncalls = max_retries
                  /\ \A i \in 1..max_retries : IsRateLimited(script[i])
          /\ wrapresult # WrapRaised(Unexpected))
  /\ <>WrapDone
\* Three rate-limited calls, three sleeps, then the 403.
C30_Witness ==
  /\ WrapDone /\ wrapresult = WrapRaised(Exhausted)
  /\ ncalls = 3 /\ waits = <<2, 4, 8>>
====
